---- MODULE Spec2Model ----
(***************************************************************************)
(* bifgen: the BIF container codec (assemble_bif, preview_bif,             *)
(* validate_bif), the frame sampler and the primary/fallback extraction    *)
(* pipeline (extract_images, extract_images_ffmpeg, main).                 *)
(*                                                                         *)
(* Python integers are unbounded, TLC's are 31 bits wide. Every quantity   *)
(* that can pass 2^31 (a '<I' field, a file offset, a buffer length) is a  *)
(* two-limb number [hi, lo] standing for hi * 65536 + lo. Byte strings are *)
(* run-length encoded, so that a payload of 4 GiB is one run.              *)
(***************************************************************************)
EXTENDS Integers, Sequences, FiniteSets, TLC

----------------------------------------------------------------------------
(* Unbounded naturals in two limbs *)

B16 == 256 * 256

Num(n) == [hi |-> n \div B16, lo |-> n % B16]

NumAdd(a, b) ==
  LET l == a.lo + b.lo
  IN  [hi |-> a.hi + b.hi + (l \div B16), lo |-> l % B16]

\* a - b, for b <= a
NumSub(a, b) ==
  IF a.lo >= b.lo
    THEN [hi |-> a.hi - b.hi, lo |-> a.lo - b.lo]
    ELSE [hi |-> a.hi - b.hi - 1, lo |-> a.lo + B16 - b.lo]

\* k * a, for a native k < 32768
NumMul(k, a) ==
  LET l == k * a.lo
  IN  [hi |-> k * a.hi + (l \div B16), lo |-> l % B16]

NumLt(a, b) == a.hi < b.hi \/ (a.hi = b.hi /\ a.lo < b.lo)

NumLe(a, b) == a = b \/ NumLt(a, b)

NumMin(a, b) == IF NumLt(a, b) THEN a ELSE b

----------------------------------------------------------------------------
(* Byte strings: a sequence of runs [b, n] (n > 0 bytes of value b), no two *)
(* neighbouring runs of the same byte, so equal strings are equal values.  *)

Run(b, n) == [b |-> b, n |-> n]

RECURSIVE BufLen(_)
BufLen(buf) ==
  IF buf = <<>> THEN Num(0) ELSE NumAdd(Head(buf).n, BufLen(Tail(buf)))

\* a + b of Python bytes
Cat(a, b) ==
  IF a = <<>> THEN b
  ELSE IF b = <<>> THEN a
  ELSE IF a[Len(a)].b = b[1].b
    THEN SubSeq(a, 1, Len(a) - 1)
           \o <<Run(b[1].b, NumAdd(a[Len(a)].n, b[1].n))>>
           \o Tail(b)
    ELSE a \o b

RECURSIVE Lit(_)
\* the byte string of an explicit sequence of byte values
Lit(bytes) ==
  IF bytes = <<>> THEN <<>>
  ELSE Cat(<<Run(Head(bytes), Num(1))>>, Lit(Tail(bytes)))

RECURSIVE Drop(_, _)
\* buf[pos:]
Drop(buf, pos) ==
  IF buf = <<>> \/ pos = Num(0) THEN buf
  ELSE IF NumLt(pos, Head(buf).n)
    THEN <<Run(Head(buf).b, NumSub(Head(buf).n, pos))>> \o Tail(buf)
    ELSE Drop(Tail(buf), NumSub(pos, Head(buf).n))

RECURSIVE Take(_, _)
\* buf[:n]
Take(buf, n) ==
  IF buf = <<>> \/ n = Num(0) THEN <<>>
  ELSE IF NumLe(n, Head(buf).n)
    THEN <<Run(Head(buf).b, n)>>
    ELSE <<Head(buf)>> \o Take(Tail(buf), NumSub(n, Head(buf).n))

RECURSIVE Explode(_)
\* the explicit byte values of a short string
Explode(buf) ==
  IF buf = <<>> THEN <<>>
  ELSE IF Head(buf).n = Num(1)
    THEN <<Head(buf).b>> \o Explode(Tail(buf))
    ELSE <<Head(buf).b>>
           \o Explode(<<Run(Head(buf).b, NumSub(Head(buf).n, Num(1)))>>
                        \o Tail(buf))

\* buf with the byte at pos (< len) replaced by v
SetByte(buf, pos, v) ==
  Cat(Cat(Take(buf, pos), Lit(<<v>>)), Drop(buf, NumAdd(pos, Num(1))))

----------------------------------------------------------------------------
(* struct.pack('<I', v) and struct.unpack('<I', s) *)

\* struct.pack raises struct.error unless 0 <= v <= 0xffffffff
PackFits(v) == v.hi < B16

PackI(v) ==
  Lit(<<v.lo % 256, v.lo \div 256, v.hi % 256, v.hi \div 256>>)

\* struct.unpack raises struct.error unless given exactly 4 bytes
UnpackFits(s) == BufLen(s) = Num(4)

UnpackI(s) ==
  LET d == Explode(s)
  IN  [hi |-> d[3] + 256 * d[4], lo |-> d[1] + 256 * d[2]]

\* f.read(n) at position pos: the bytes there, fewer at the end of the file
FRead(file, pos, n) == Take(Drop(file, pos), n)

\* f.read(n) for a negative n: everything up to the end of the file
FReadAll(file, pos) == Drop(file, pos)

----------------------------------------------------------------------------
(* assemble_bif *)

magic_number == <<137, 66, 73, 70, 13, 10, 26, 10>>

version == 0

\* the terminator's index, 0xffffffff
TerminatorIndex == [hi |-> B16 - 1, lo |-> B16 - 1]

Raw(data) == [kind |-> "raw", data |-> data]

U32(v) == [kind |-> "u32", v |-> v]

Zeros(n) == IF n = 0 THEN <<>> ELSE <<Run(0, Num(n))>>

RECURSIVE ImageOffsetsAfterAdd(_, _)
\* a slip in the walk: the offset is recorded after the image's length was
\* added, so every entry holds its image's end
ImageOffsetsAfterAdd(imgs, current_offset) ==
  IF imgs = <<>> THEN <<>>
  ELSE <<NumAdd(current_offset, BufLen(Head(imgs)))>>
         \o ImageOffsetsAfterAdd(Tail(imgs),
                                 NumAdd(current_offset, BufLen(Head(imgs))))

RECURSIVE ImageOffsets(_, _)
\* image_offsets: each image's start, a running total from current_offset
ImageOffsets(imgs, current_offset) ==
  IF imgs = <<>> THEN <<>>
  ELSE <<current_offset>>
         \o ImageOffsets(Tail(imgs), NumAdd(current_offset, BufLen(Head(imgs))))

RECURSIVE EndOffset(_, _)
\* current_offset after the walk over the images
EndOffset(imgs, current_offset) ==
  IF imgs = <<>> THEN current_offset
  ELSE EndOffset(Tail(imgs), NumAdd(current_offset, BufLen(Head(imgs))))

\* the table's writes: f.write(pack(i)); f.write(pack(offset)) per image
TableWrites(image_offsets) ==
  LET pair(i) == <<U32(Num(i - 1)), U32(image_offsets[i])>>
      RECURSIVE upto(_)
      upto(i) == IF i = 0 THEN <<>> ELSE upto(i - 1) \o pair(i)
  IN  upto(Len(image_offsets))

\* every f.write of assemble_bif, in the order the code issues them
WriteSequence(imgs, ival) ==
  LET bif_table_size == 8 * (Len(imgs) + 1)
      image_index_offset == Num(64 + bif_table_size)
      image_offsets == ImageOffsets(imgs, image_index_offset)
      current_offset == EndOffset(imgs, image_index_offset)
  IN  <<Raw(Lit(magic_number)),
        U32(Num(version)),
        U32(Num(Len(imgs))),
        U32(NumMul(1000, Num(ival))),
        Raw(Zeros(44))>>
      \o TableWrites(image_offsets)
      \o <<U32(TerminatorIndex), U32(current_offset)>>
      \o [i \in 1..Len(imgs) |-> Raw(imgs[i])]

RECURSIVE RunWrites(_, _)
\* the file's content when the with-block is left: every write up to the
\* first struct.pack that raises (the file is flushed and closed on the way
\* out), and whether the block ran to its end
RunWrites(writes, written) ==
  IF writes = <<>> THEN [ok |-> TRUE, data |-> written]
  ELSE LET w == Head(writes)
       IN  IF w.kind = "raw"
             THEN RunWrites(Tail(writes), Cat(written, w.data))
           ELSE IF PackFits(w.v)
             THEN RunWrites(Tail(writes), Cat(written, PackI(w.v)))
           ELSE [ok |-> FALSE, data |-> written]

assemble_bif(imgs, ival) == RunWrites(WriteSequence(imgs, ival), <<>>)

----------------------------------------------------------------------------
(* The header and the index table, as both decoders read them *)

\* f.tell() after a read of n bytes at pos: reads stop at the end of the file
Advance(file, pos, n) == NumAdd(pos, BufLen(FRead(file, pos, n)))

\* the three '<I' fields after the magic; each unpack raises on a short read
HeaderFits(file) ==
  /\ UnpackFits(FRead(file, Num(8), Num(4)))
  /\ UnpackFits(FRead(file, Num(12), Num(4)))
  /\ UnpackFits(FRead(file, Num(16), Num(4)))

HeaderNumImages(file) == UnpackI(FRead(file, Num(12), Num(4)))

HeaderIntervalMs(file) == UnpackI(FRead(file, Num(16), Num(4)))

\* f.tell() after the header fields and f.read(44)
HeaderEnd(file) == Advance(file, Num(20), Num(44))

RECURSIVE ReadTable(_, _, _, _, _)
\* the loop over range(num_images): per entry 4 bytes of index, then the
\* offset. preview_bif unpacks the index (unpackIndex), validate_bif skips it.
\* ok is FALSE when an unpack raised.
ReadTable(file, pos, left, unpackIndex, acc) ==
  IF left = Num(0) THEN [ok |-> TRUE, image_offsets |-> acc, pos |-> pos]
  ELSE LET idx == FRead(file, pos, Num(4))
           p2  == Advance(file, pos, Num(4))
           off == FRead(file, p2, Num(4))
           p3  == Advance(file, p2, Num(4))
       IN  IF (unpackIndex /\ ~UnpackFits(idx)) \/ ~UnpackFits(off)
             THEN [ok |-> FALSE, image_offsets |-> acc, pos |-> pos]
             ELSE ReadTable(file, p3, NumSub(left, Num(1)), unpackIndex,
                            Append(acc, UnpackI(off)))

\* image_size = next_offset - offset; f.seek(offset); f.read(image_size).
\* A negative size reads to the end of the file.
ReadImage(file, offset, next_offset) ==
  IF NumLt(next_offset, offset)
    THEN FReadAll(file, offset)
    ELSE FRead(file, offset, NumSub(next_offset, offset))

----------------------------------------------------------------------------
(* preview_bif *)

NoFile == "NoFile"

PreviewResult(status, n, ms, offsets, frames) ==
  [status |-> status, num_images |-> n, interval_ms |-> ms,
   image_offsets |-> offsets, frames |-> frames]

\* the frame files written: entry i ends at the next entry's offset, the last
\* one at the file's size
PreviewFrames(file, image_offsets) ==
  [i \in 1..Len(image_offsets) |->
     ReadImage(file, image_offsets[i],
               IF i + 1 <= Len(image_offsets)
                 THEN image_offsets[i + 1] ELSE BufLen(file))]

\* status: "not_found" and "bad_magic" are the sys.exit(1) exits,
\* "struct_error" an uncaught struct.error, "ok" the success message
preview_bif(file) ==
  IF file = NoFile
    THEN PreviewResult("not_found", Num(0), Num(0), <<>>, <<>>)
  ELSE IF FRead(file, Num(0), Num(8)) # Lit(magic_number)
    THEN PreviewResult("bad_magic", Num(0), Num(0), <<>>, <<>>)
  ELSE IF ~HeaderFits(file)
    THEN PreviewResult("struct_error", Num(0), Num(0), <<>>, <<>>)
  ELSE LET n   == HeaderNumImages(file)
           ms  == HeaderIntervalMs(file)
           tab == ReadTable(file, HeaderEnd(file), n, TRUE, <<>>)
       IN  IF ~tab.ok
             THEN PreviewResult("struct_error", n, ms, <<>>, <<>>)
             ELSE PreviewResult("ok", n, ms, tab.image_offsets,
                                PreviewFrames(file, tab.image_offsets))

----------------------------------------------------------------------------
(* validate_bif *)

mse_threshold == 400

\* What OpenCV answers for entry i: whether cv2.imdecode returns an image,
\* whether vcap.read() succeeds, and the MSE of the two images. An index the
\* environment says nothing about holds no image.
EnvAt(e, i) ==
  IF i \in DOMAIN e THEN e[i] ELSE [dec |-> FALSE, rd |-> TRUE, mse |-> 0]

ToNat(n) == n.hi * B16 + n.lo

\* sample_indices: range(num_images), or random.sample(range(num_images),
\* min(num_samples, num_images)): any order of any k distinct indices
SampleChoices(n, all, samples) ==
  IF all THEN {[i \in 1..n |-> i - 1]}
  ELSE LET k == IF samples < n THEN samples ELSE n
       IN  {s \in [1..k -> 0..(n - 1)] :
              \A i, j \in 1..k : i # j => s[i] # s[j]}

RECURSIVE ValidateLoopAbort(_, _, _, _, _, _, _)
\* a slip in the loop: break where the code has continue, so the first sample
\* that fails to decode or to read ends the loop
ValidateLoopAbort(file, image_offsets, interval_ms, e, samples, mismatches, log) ==
  IF samples = <<>> THEN [mismatches |-> mismatches, log |-> log]
  ELSE LET frame_index == Head(samples)
           bif_jpg_data == ReadImage(file, image_offsets[frame_index + 1],
                                     image_offsets[frame_index + 2])
           cell == EnvAt(e, frame_index)
           line == IF ~cell.dec THEN "FAILED decode"
                   ELSE IF ~cell.rd THEN "FAILED read"
                   ELSE IF cell.mse < mse_threshold THEN "OK"
                   ELSE "MISMATCH"
           entry == [frame_index |-> frame_index, data |-> bif_jpg_data,
                     timestamp_ms |-> NumMul(frame_index, interval_ms),
                     line |-> line]
       IN  IF line \in {"FAILED decode", "FAILED read"}
             THEN [mismatches |-> mismatches + 1, log |-> Append(log, entry)]
             ELSE ValidateLoopAbort(file, image_offsets, interval_ms, e,
                                    Tail(samples),
                                    IF line = "OK" THEN mismatches
                                    ELSE mismatches + 1,
                                    Append(log, entry))

RECURSIVE ValidateLoop(_, _, _, _, _, _, _)
\* the loop over sample_indices: mismatches, and per processed sample the
\* bytes read from the BIF, the timestamp sought and the line printed
ValidateLoop(file, image_offsets, interval_ms, e, samples, mismatches, log) ==
  IF samples = <<>> THEN [mismatches |-> mismatches, log |-> log]
  ELSE LET frame_index == Head(samples)
           bif_jpg_data == ReadImage(file, image_offsets[frame_index + 1],
                                     image_offsets[frame_index + 2])
           timestamp_ms == NumMul(frame_index, interval_ms)
           cell == EnvAt(e, frame_index)
           line == IF ~cell.dec THEN "FAILED decode"
                   ELSE IF ~cell.rd THEN "FAILED read"
                   ELSE IF cell.mse < mse_threshold THEN "OK"
                   ELSE "MISMATCH"
           entry == [frame_index |-> frame_index, data |-> bif_jpg_data,
                     timestamp_ms |-> timestamp_ms, line |-> line]
       IN  ValidateLoop(file, image_offsets, interval_ms, e, Tail(samples),
                        IF line = "OK" THEN mismatches ELSE mismatches + 1,
                        Append(log, entry))

ValidateResult(status, result, n, ms, offsets, samples, mismatches, log) ==
  [status |-> status, result |-> result, num_images |-> n,
   interval_ms |-> ms, image_offsets |-> offsets,
   sample_indices |-> samples, mismatches |-> mismatches, log |-> log]

\* the parse of lines 29-56: ok is FALSE when an unpack raised; image_offsets
\* ends with the terminator's offset
ValidateTable(file) ==
  LET n   == HeaderNumImages(file)
      tab == ReadTable(file, HeaderEnd(file), n, FALSE, <<>>)
      end_of_table == tab.pos
      final == FRead(file, NumAdd(end_of_table, Num(4)), Num(4))
  IN  IF ~tab.ok \/ ~UnpackFits(final)
        THEN [ok |-> FALSE, image_offsets |-> <<>>]
        ELSE [ok |-> TRUE,
              image_offsets |-> Append(tab.image_offsets, UnpackI(final))]

\* whether the read reaches the selection of samples, and num_images there
ReachesSampling(file) ==
  /\ file # NoFile
  /\ FRead(file, Num(0), Num(8)) = Lit(magic_number)
  /\ HeaderFits(file)
  /\ HeaderNumImages(file) # Num(0)
  /\ ValidateTable(file).ok

SampleRange(file) ==
  IF ReachesSampling(file) THEN ToNat(HeaderNumImages(file)) ELSE 0

\* status: "not_found" (no BIF file), "bad_magic", "error" (the except
\* clause), "no_images" (the early return True), "validated" (the summary).
\* sample_indices is the selection made at lines 62-67 (SampleChoices).
validate_bif(file, e, sample_indices) ==
  IF file = NoFile
    THEN ValidateResult("not_found", FALSE, Num(0), Num(0), <<>>, <<>>, 0, <<>>)
  ELSE IF FRead(file, Num(0), Num(8)) # Lit(magic_number)
    THEN ValidateResult("bad_magic", FALSE, Num(0), Num(0), <<>>, <<>>, 0, <<>>)
  ELSE IF ~HeaderFits(file)
    THEN ValidateResult("error", FALSE, Num(0), Num(0), <<>>, <<>>, 0, <<>>)
  ELSE LET n  == HeaderNumImages(file)
           ms == HeaderIntervalMs(file)
       IN  IF n = Num(0)
             THEN ValidateResult("no_images", TRUE, n, ms, <<>>, <<>>, 0, <<>>)
           ELSE IF ~ValidateTable(file).ok
             THEN ValidateResult("error", FALSE, n, ms, <<>>, <<>>, 0, <<>>)
           ELSE LET offs == ValidateTable(file).image_offsets
                    run == ValidateLoop(file, offs, ms, e, sample_indices,
                                        0, <<>>)
                IN  ValidateResult("validated", run.mismatches = 0, n, ms,
                                   offs, sample_indices, run.mismatches,
                                   run.log)

----------------------------------------------------------------------------
(* extract_images: the sampler, the pool's chunks, the re-sort *)

RECURSIVE Range(_, _, _)
\* range(start, stop, step), for step >= 1
Range(start, stop, step) ==
  IF start < stop THEN <<start>> \o Range(start + step, stop, step) ELSE <<>>

\* a sampler that starts one interval in, as range(interval, duration,
\* interval) would
FrameTimestampsFromInterval(off, dur, ival) == Range(off + ival, dur, ival)

\* frame_timestamps = range(args.offset, metadata['duration'], args.interval)
FrameTimestamps(off, dur, ival) == Range(off, dur, ival)

\* chunksize, extra = divmod(len(tasks), num_processes * 4), rounded up
ChunkSize(ntasks, num_processes) ==
  LET q == ntasks \div (num_processes * 4)
      extra == ntasks % (num_processes * 4)
  IN  IF extra # 0 THEN q + 1 ELSE q

RECURSIVE Chunks(_, _)
\* the batches the pool cuts the tasks into: chunksize consecutive tasks each
Chunks(tasks, chunksize) ==
  IF tasks = <<>> THEN <<>>
  ELSE IF Len(tasks) <= chunksize THEN <<tasks>>
  ELSE <<SubSeq(tasks, 1, chunksize)>>
         \o Chunks(SubSeq(tasks, chunksize + 1, Len(tasks)), chunksize)

\* the JPEG process_frame encodes from the frame read at timestamp ts, and
\* the one FFmpeg writes for it: opaque bytes, told apart by their third byte
PrimaryJpeg(ts) == Lit(<<255, 216, 1, ts>>)

FallbackJpeg(ts) == Lit(<<255, 216, 2, ts>>)

\* process_frame(task): (timestamp, bytes), or None when vcap.read() fails
process_frame(ts, failing) ==
  IF ts \in failing THEN <<>> ELSE <<[ts |-> ts, data |-> PrimaryJpeg(ts)]>>

RECURSIVE RunChunk(_, _)
\* a chunk's results with the None results left out (line 118)
RunChunk(chunk, failing) ==
  IF chunk = <<>> THEN <<>>
  ELSE process_frame(Head(chunk), failing) \o RunChunk(Tail(chunk), failing)

RECURSIVE InsertByTs(_, _)
InsertByTs(sorted, x) ==
  IF sorted = <<>> THEN <<x>>
  ELSE IF x.ts < Head(sorted).ts THEN <<x>> \o sorted
  ELSE <<Head(sorted)>> \o InsertByTs(Tail(sorted), x)

RECURSIVE SortByTsOf(_)
SortByTsOf(pairs) ==
  IF pairs = <<>> THEN <<>>
  ELSE InsertByTs(SortByTsOf(SubSeq(pairs, 1, Len(pairs) - 1)),
                  pairs[Len(pairs)])

\* the list left as collected: what a missing re-sort would return
KeepCompletionOrder(pairs) == pairs

\* images.sort(key=lambda x: x[0]): a stable sort by timestamp
SortByTs(pairs) == SortByTsOf(pairs)

\* [img_data for _, img_data in images]
ImageData(pairs) == [i \in 1..Len(pairs) |-> pairs[i].data]

\* the files FFmpeg wrote, read back in sorted name order: %08d.jpg, one per
\* interval from the offset on
FfmpegFrames(emitted, off, ival) ==
  [k \in 1..emitted |-> FallbackJpeg(off + (k - 1) * ival)]

\* a fallback that keeps what FFmpeg wrote whatever its exit status
FfmpegKeepsFrames(available, emitted, ret, off, ival) ==
  IF ~available THEN <<>> ELSE FfmpegFrames(emitted, off, ival)

\* extract_images_ffmpeg: [] without the tool, [] when FFmpeg exits non-zero
extract_images_ffmpeg(available, emitted, ret, off, ival) ==
  IF ~available THEN <<>>
  ELSE IF ret # 0 THEN <<>>
  ELSE FfmpegFrames(emitted, off, ival)

----------------------------------------------------------------------------
(* Inputs *)

MaxImages == 2

\* a payload of 2^32 - 1 - 80 bytes: alone in a BIF it ends exactly at
\* offset 0xffffffff
Huge == <<Run(170, [hi |-> B16 - 1, lo |-> B16 - 1 - 80])>>

Soi == Lit(<<255, 216>>)

Buffers == {<<>>, Lit(<<7>>), Soi, Huge}

SeqsUpTo(S, n) == UNION {[1..k -> S] : k \in 0..n}

\* 4294967 is the last interval whose milliseconds fit in 32 bits
Intervals == {1, 10, 4294967, 4294968}

EnvCells ==
  {[dec |-> FALSE, rd |-> TRUE, mse |-> 0],
   [dec |-> TRUE, rd |-> FALSE, mse |-> 0],
   [dec |-> TRUE, rd |-> TRUE, mse |-> mse_threshold - 1],
   [dec |-> TRUE, rd |-> TRUE, mse |-> mse_threshold],
   [dec |-> TRUE, rd |-> TRUE, mse |-> mse_threshold + 1]}

MaxSamples == 3

\* where a stream handed to a decoder is cut short or altered
TruncateLengths == {0, 4, 8, 12, 20, 40, 64, 70, 72, 76, 80, 81, 88, 89}

TamperPositions == {0, 7, 12, 68, 76, 84}

TamperValues == {0, 3}

\* bounds of the extraction runs
MaxDuration == 5

MaxInterval == 2

MaxOffset == 1

MaxJobs == 2

MaxEmitted == 2

\* bounds of the sampler's arguments
SampleMaxDuration == 95

SampleMaxInterval == 10

SampleMaxOffset == 2

VARIABLES
  images,        \* assemble_bif's images
  interval,      \* args.interval
  disk,          \* the content of the BIF file, or NoFile
  wr,            \* assemble_bif: "none", "written", "raised"
  tampered,      \* the file is no longer what assemble_bif left
  validate_all,  \* validate_bif's --all
  num_samples,   \* validate_bif's --samples
  env,           \* what OpenCV answers per entry
  pv,            \* preview_bif's outcome
  vd,            \* validate_bif's outcome
  duration,      \* metadata['duration']
  offset,        \* args.offset
  jobs,          \* args.jobs
  opens,         \* whether the primary backend opens the source
  unreadable,    \* the timestamps at which vcap.read() fails
  ffmpeg,        \* whether shutil.which('ffmpeg') finds the tool
  pc,            \* where main and extract_images stand
  frame_timestamps,
  taskq,         \* the chunks no worker has taken yet
  workers,       \* per pool worker: its state and the chunk it holds
  outq,          \* chunk results the main process has not yet received
  received,      \* results the loop at line 117 has seen, None included
  ts_images,     \* extract_images' list of (timestamp, bytes)
  arrival,       \* the timestamps of the results, in the order received
  ff,            \* the FFmpeg run: frames written, exit status
  hist           \* the stages extract_images went through

codecVars ==
  <<images, interval, disk, wr, tampered, validate_all, num_samples, env, pv, vd>>

extractVars ==
  <<duration, offset, jobs, opens, unreadable, ffmpeg, pc, frame_timestamps,
    taskq, workers, outq, received, ts_images, arrival, ff, hist>>

vars == <<codecVars, extractVars>>

NoPreview == PreviewResult("none", Num(0), Num(0), <<>>, <<>>)

NoValidate == ValidateResult("none", FALSE, Num(0), Num(0), <<>>, <<>>, 0, <<>>)

CodecStart ==
  /\ disk = NoFile
  /\ wr = "none"
  /\ tampered = FALSE
  /\ pv = NoPreview
  /\ vd = NoValidate

\* assemble_bif(output_location, images, args)
AssembleBif ==
  /\ pc = "idle"
  /\ wr = "none"
  /\ LET r == assemble_bif(images, interval)
     IN  /\ disk' = r.data
         /\ wr' = IF r.ok THEN "written" ELSE "raised"
  /\ UNCHANGED <<images, interval, tampered, validate_all, num_samples, env, pv, vd>>
  /\ UNCHANGED extractVars

\* a stream that is not what assemble_bif wrote: cut short ...
Truncate ==
  /\ disk # NoFile
  /\ ~tampered
  /\ pv = NoPreview /\ vd = NoValidate
  /\ \E n \in TruncateLengths :
       /\ NumLt(Num(n), BufLen(disk))
       /\ disk' = Take(disk, Num(n))
  /\ tampered' = TRUE
  /\ UNCHANGED <<images, interval, wr, validate_all, num_samples, env, pv, vd>>
  /\ UNCHANGED extractVars

\* ... or with one byte altered
Overwrite ==
  /\ disk # NoFile
  /\ ~tampered
  /\ pv = NoPreview /\ vd = NoValidate
  /\ \E p \in TamperPositions, v \in TamperValues :
       /\ NumLt(Num(p), BufLen(disk))
       /\ disk' = SetByte(disk, Num(p), v)
       /\ disk' # disk
  /\ tampered' = TRUE
  /\ UNCHANGED <<images, interval, wr, validate_all, num_samples, env, pv, vd>>
  /\ UNCHANGED extractVars

\* preview_bif(bif_path)
PreviewBif ==
  /\ wr # "none"
  /\ pv = NoPreview
  /\ pv' = preview_bif(disk)
  /\ UNCHANGED <<images, interval, disk, wr, tampered, validate_all, num_samples, env, vd>>
  /\ UNCHANGED extractVars

\* validate_bif(bif_path, video_path, num_samples, mse_threshold, validate_all)
ValidateBif ==
  /\ wr # "none"
  /\ vd = NoValidate
  /\ \E s \in SampleChoices(SampleRange(disk), validate_all, num_samples) :
       vd' = validate_bif(disk, env, s)
  /\ UNCHANGED <<images, interval, disk, wr, tampered, validate_all, num_samples, env, pv>>
  /\ UNCHANGED extractVars

----------------------------------------------------------------------------
(* main and extract_images *)

NoFfmpegRun == [ran |-> FALSE, emitted |-> 0, ret |-> 0]

\* the pipeline is not running: the codec is exercised on its own
ExtractIdle ==
  /\ duration = 0 /\ offset = 0 /\ jobs = 1
  /\ opens = TRUE /\ unreadable = {} /\ ffmpeg = FALSE
  /\ pc = "idle"
  /\ frame_timestamps = <<>> /\ taskq = <<>> /\ workers = <<>>
  /\ outq = <<>> /\ received = 0 /\ ts_images = <<>> /\ arrival = <<>>
  /\ ff = NoFfmpegRun /\ hist = <<>>

AllWorkers(st) == [w \in 1..jobs |-> [st |-> st, chunk |-> <<>>]]

inputVars == <<interval, duration, offset, jobs, opens, unreadable, ffmpeg>>

decoderVars == <<tampered, validate_all, num_samples, env, pv, vd>>

\* lines 87-101: the pre-check opens the source
PreCheckOpens ==
  /\ pc = "precheck"
  /\ opens
  /\ pc' = "dispatch"
  /\ UNCHANGED <<inputVars, decoderVars, images, disk, wr, frame_timestamps,
                 taskq, workers, outq, received, ts_images, arrival, ff, hist>>

\* lines 95-98: it does not; extract_images returns the fallback's result
PreCheckFails ==
  /\ pc = "precheck"
  /\ ~opens
  /\ pc' = "fallback"
  /\ hist' = hist \o <<"PrimaryFailedOpen", "FallbackAttempt">>
  /\ UNCHANGED <<inputVars, decoderVars, images, disk, wr, frame_timestamps,
                 taskq, workers, outq, received, ts_images, arrival, ff>>

\* lines 103-117: the tasks, the pool and its workers, the chunks handed to
\* imap_unordered
PoolStart ==
  /\ pc = "dispatch"
  /\ LET ts == FrameTimestamps(offset, duration, interval)
         chunksize == ChunkSize(Len(ts), jobs)
     IN  /\ chunksize >= 1
         /\ frame_timestamps' = ts
         /\ taskq' = Chunks(ts, chunksize)
  /\ workers' = AllWorkers("idle")
  /\ pc' = "pool"
  /\ UNCHANGED <<inputVars, decoderVars, images, disk, wr, outq, received,
                 ts_images, arrival, ff, hist>>

\* line 117 with no task: chunksize is 0, imap_unordered raises ValueError
\* ("Chunksize must be 1+"), the with-block terminates the pool and the
\* exception leaves extract_images and main
PoolRejectsChunksize ==
  /\ pc = "dispatch"
  /\ LET ts == FrameTimestamps(offset, duration, interval)
     IN  /\ ChunkSize(Len(ts), jobs) < 1
         /\ frame_timestamps' = ts
  /\ workers' = AllWorkers("terminated")
  /\ pc' = "crashed"
  /\ hist' = Append(hist, "Raised")
  /\ UNCHANGED <<inputVars, decoderVars, images, disk, wr, taskq, outq,
                 received, ts_images, arrival, ff>>

\* a pool worker takes the next chunk off the task queue
WorkerTake(w) ==
  /\ pc = "pool"
  /\ workers[w].st = "idle"
  /\ taskq # <<>>
  /\ workers' = [workers EXCEPT ![w] = [st |-> "busy", chunk |-> Head(taskq)]]
  /\ taskq' = Tail(taskq)
  /\ UNCHANGED <<inputVars, decoderVars, images, disk, wr, frame_timestamps,
                 pc, outq, received, ts_images, arrival, ff, hist>>

\* it runs process_frame over its chunk and sends the results back
WorkerFinish(w) ==
  /\ pc = "pool"
  /\ workers[w].st = "busy"
  /\ outq' = Append(outq, [n |-> Len(workers[w].chunk),
                           results |-> RunChunk(workers[w].chunk, unreadable)])
  /\ workers' = [workers EXCEPT ![w] = [st |-> "idle", chunk |-> <<>>]]
  /\ UNCHANGED <<inputVars, decoderVars, images, disk, wr, frame_timestamps,
                 pc, taskq, received, ts_images, arrival, ff, hist>>

\* lines 117-120: the loop receives a chunk's results in completion order
MainCollect ==
  /\ pc = "pool"
  /\ outq # <<>>
  /\ ts_images' = ts_images \o Head(outq).results
  /\ arrival' = arrival \o [i \in 1..Len(Head(outq).results) |->
                               Head(outq).results[i].ts]
  /\ received' = received + Head(outq).n
  /\ outq' = Tail(outq)
  /\ UNCHANGED <<inputVars, decoderVars, images, disk, wr, frame_timestamps,
                 pc, taskq, workers, ff, hist>>

\* a join that leaves the loop once every task is handed out, as a streaming
\* merge would, while chunks are still being worked on
PoolJoinOnDispatch ==
  /\ pc = "pool"
  /\ taskq = <<>>
  /\ workers' = AllWorkers("terminated")
  /\ pc' = "joined"
  /\ UNCHANGED <<inputVars, decoderVars, images, disk, wr, frame_timestamps,
                 taskq, outq, received, ts_images, arrival, ff, hist>>

\* the loop has seen a result for every task; leaving the with-block
\* terminates the pool
PoolJoin ==
  /\ pc = "pool"
  /\ received = Len(frame_timestamps)
  /\ workers' = AllWorkers("terminated")
  /\ pc' = "joined"
  /\ UNCHANGED <<inputVars, decoderVars, images, disk, wr, frame_timestamps,
                 taskq, outq, received, ts_images, arrival, ff, hist>>

\* lines 122-126: no image on the primary path
PrimaryEmpty ==
  /\ pc = "joined"
  /\ ts_images = <<>>
  /\ pc' = "fallback"
  /\ hist' = hist \o <<"PrimaryFailedEmpty", "FallbackAttempt">>
  /\ UNCHANGED <<inputVars, decoderVars, images, disk, wr, frame_timestamps,
                 taskq, workers, outq, received, ts_images, arrival, ff>>

\* lines 128-129: the re-sort and the return
PrimaryReturn ==
  /\ pc = "joined"
  /\ ts_images # <<>>
  /\ ts_images' = SortByTs(ts_images)
  /\ arrival' = arrival
  /\ images' = ImageData(ts_images')
  /\ pc' = "extracted"
  /\ hist' = hist \o <<"PrimarySucceeded", "Done">>
  /\ UNCHANGED <<inputVars, decoderVars, disk, wr, frame_timestamps, taskq,
                 workers, outq, received, ff>>

\* extract_images_ffmpeg, lines 184-249
Fallback ==
  /\ pc = "fallback"
  /\ \E emitted \in 0..MaxEmitted, ret \in {0, 1} :
       /\ ff' = IF ffmpeg THEN [ran |-> TRUE, emitted |-> emitted, ret |-> ret]
                ELSE NoFfmpegRun
       /\ images' = extract_images_ffmpeg(ffmpeg, emitted, ret, offset, interval)
  /\ pc' = "extracted"
  /\ hist' = hist \o <<IF images' # <<>> THEN "FallbackSucceeded"
                       ELSE "FallbackFailed", "Done">>
  /\ UNCHANGED <<inputVars, decoderVars, disk, wr, frame_timestamps, taskq,
                 workers, outq, received, ts_images, arrival>>

\* main, lines 323-325: sys.exit(1)
MainNoFrames ==
  /\ pc = "extracted"
  /\ images = <<>>
  /\ pc' = "exit1"
  /\ UNCHANGED <<inputVars, decoderVars, images, disk, wr, frame_timestamps,
                 taskq, workers, outq, received, ts_images, arrival, ff, hist>>

\* main, lines 327-330: assemble_bif(destination, images, args)
MainAssemble ==
  /\ pc = "extracted"
  /\ images # <<>>
  /\ LET r == assemble_bif(images, interval)
     IN  /\ disk' = r.data
         /\ wr' = IF r.ok THEN "written" ELSE "raised"
         /\ pc' = IF r.ok THEN "done" ELSE "crashed"
  /\ UNCHANGED <<inputVars, decoderVars, images, frame_timestamps, taskq,
                 workers, outq, received, ts_images, arrival, ff, hist>>

Elems(seq) == {seq[i] : i \in 1..Len(seq)}

\* a run of main from the call of extract_images on
ExtractInit ==
  /\ \/ /\ interval \in 1..MaxInterval
        /\ duration \in 0..MaxDuration
        /\ offset \in 0..MaxOffset
        /\ jobs \in 1..MaxJobs
        /\ opens \in BOOLEAN
        /\ unreadable \in SUBSET Elems(FrameTimestamps(offset, duration, interval))
     \* nine tasks on two workers, the first run the pool cuts into chunks
     \* of two; the unreadable timestamps are a stretch of the source
     \/ /\ interval = 1 /\ duration = 9 /\ offset = 0 /\ jobs = 2
        /\ opens = TRUE
        /\ unreadable \in {{t \in 0..8 : lo <= t /\ t < hi} : lo, hi \in 0..9}
  /\ ffmpeg \in BOOLEAN
  /\ pc = "precheck"
  /\ hist = <<"PrimaryAttempt">>
  /\ frame_timestamps = <<>> /\ taskq = <<>> /\ workers = <<>>
  /\ outq = <<>> /\ received = 0 /\ ts_images = <<>> /\ arrival = <<>>
  /\ ff = NoFfmpegRun
  /\ images = <<>>
  /\ validate_all = TRUE
  /\ num_samples = 0
  /\ env = [i \in 0..(MaxImages - 1) |-> [dec |-> TRUE, rd |-> TRUE, mse |-> 0]]
  /\ CodecStart

ExtractNext ==
  \/ PreCheckOpens
  \/ PreCheckFails
  \/ PoolStart
  \/ PoolRejectsChunksize
  \/ \E w \in DOMAIN workers : WorkerTake(w)
  \/ \E w \in DOMAIN workers : WorkerFinish(w)
  \/ MainCollect
  \/ PoolJoin
  \/ PrimaryEmpty
  \/ PrimaryReturn
  \/ Fallback
  \/ MainNoFrames
  \/ MainAssemble

SpecExtract == ExtractInit /\ [][ExtractNext]_vars

\* the sampler alone, line 103, over wide ranges of its arguments
Sample ==
  /\ pc = "sample"
  /\ frame_timestamps' = FrameTimestamps(offset, duration, interval)
  /\ pc' = "sampled"
  /\ UNCHANGED <<inputVars, decoderVars, images, disk, wr, taskq, workers,
                 outq, received, ts_images, arrival, ff, hist>>

SamplerInit ==
  /\ interval \in 1..SampleMaxInterval
  /\ duration \in 0..SampleMaxDuration
  /\ offset \in 0..SampleMaxOffset
  /\ jobs = 1 /\ opens = TRUE /\ unreadable = {} /\ ffmpeg = FALSE
  /\ pc = "sample"
  /\ frame_timestamps = <<>> /\ taskq = <<>> /\ workers = <<>>
  /\ outq = <<>> /\ received = 0 /\ ts_images = <<>> /\ arrival = <<>>
  /\ ff = NoFfmpegRun /\ hist = <<>>
  /\ images = <<>>
  /\ validate_all = TRUE
  /\ num_samples = 0
  /\ env = [i \in 0..(MaxImages - 1) |-> [dec |-> TRUE, rd |-> TRUE, mse |-> 0]]
  /\ CodecStart

SamplerNext == Sample

SpecSampler == SamplerInit /\ [][SamplerNext]_vars

\* Encode and both decoders, over arbitrary images and streams
CodecInit ==
  /\ images \in SeqsUpTo(Buffers, MaxImages)
  /\ interval \in Intervals
  /\ validate_all = TRUE
  /\ num_samples = 0
  /\ env = [i \in 0..(MaxImages - 1) |-> [dec |-> TRUE, rd |-> TRUE, mse |-> 0]]
  /\ CodecStart
  /\ ExtractIdle

CodecNext ==
  \/ AssembleBif
  \/ Truncate
  \/ Overwrite
  \/ PreviewBif
  \/ ValidateBif

SpecCodec == CodecInit /\ [][CodecNext]_vars

\* validate_bif over the files assemble_bif writes, under every answer of
\* OpenCV and every selection of samples
ValidateInit ==
  /\ interval = 10
  /\ \E n \in 0..MaxImages :
       images = [i \in 1..n |-> PrimaryJpeg((i - 1) * interval)]
  /\ validate_all \in BOOLEAN
  /\ num_samples \in 0..MaxSamples
  /\ env \in [0..(MaxImages - 1) -> EnvCells]
  /\ CodecStart
  /\ ExtractIdle

ValidateNext ==
  \/ AssembleBif
  \/ ValidateBif

SpecValidate == ValidateInit /\ [][ValidateNext]_vars

----------------------------------------------------------------------------
(* Properties of the codec *)

FitsU32(v) == v.hi < B16

\* 64 + 8 * (N + 1) + the payloads' lengths
RECURSIVE TotalLen(_)
TotalLen(imgs) ==
  IF imgs = <<>> THEN Num(0) ELSE NumAdd(BufLen(Head(imgs)), TotalLen(Tail(imgs)))

ExpectedFileLen(imgs) == NumAdd(Num(64 + 8 * (Len(imgs) + 1)), TotalLen(imgs))

ExpectedIntervalMs(ival) == NumMul(1000, Num(ival))

Encoded == wr # "none" /\ ~tampered

\* what each decoder recovered equals what was encoded
PreviewRecovers ==
  /\ pv.status = "ok"
  /\ pv.num_images = Num(Len(images))
  /\ pv.interval_ms = ExpectedIntervalMs(interval)
  /\ pv.frames = images

ValidateRecovers ==
  /\ vd.num_images = Num(Len(images))
  /\ vd.interval_ms = ExpectedIntervalMs(interval)
  /\ IF images = <<>> THEN vd.status = "no_images"
     ELSE /\ vd.status = "validated"
          /\ Len(vd.log) = Len(images)
          /\ \A i \in 1..Len(images) :
               /\ vd.log[i].frame_index = i - 1
               /\ vd.log[i].data = images[i]

RoundTrip ==
  /\ pv # NoPreview => PreviewRecovers
  /\ vd # NoValidate => ValidateRecovers

TableOf(file) == ValidateTable(file).image_offsets

StrictlyIncreasing(offs) ==
  \A i \in 1..(Len(offs) - 1) : NumLt(offs[i], offs[i + 1])

OffsetInvariant(file) ==
  /\ HeaderFits(file)
  /\ ValidateTable(file).ok
  /\ LET offs == TableOf(file)
         n == HeaderNumImages(file)
     IN  /\ StrictlyIncreasing(offs)
         /\ offs[1] = NumAdd(Num(64), NumMul(8, NumAdd(n, Num(1))))
         /\ offs[Len(offs)] = BufLen(file)

PayloadLengths(file, imgs) ==
  \A i \in 1..Len(imgs) :
    NumAdd(TableOf(file)[i], BufLen(imgs[i])) = TableOf(file)[i + 1]

\* C2: in every file assemble_bif produces and in every file a decoder
\* accepts, the N offsets and the terminator's offset increase strictly, the
\* first is 64 + 8 * (N + 1), consecutive offsets differ by the payload's
\* length, and the terminator's offset is the file's length.
C2_OffsetInvariant ==
  /\ (Encoded /\ wr = "written")
       => (OffsetInvariant(disk) /\ PayloadLengths(disk, images))
  /\ (pv.status = "ok")
       => (OffsetInvariant(disk) /\ PayloadLengths(disk, pv.frames))
  /\ (vd.status \in {"no_images", "validated"}) => OffsetInvariant(disk)

\* the stream's first 8 bytes are not the magic, or it is shorter than the
\* header, or shorter than the header and the table of the N it declares
Malformed(file) ==
  \/ FRead(file, Num(0), Num(8)) # Lit(magic_number)
  \/ NumLt(BufLen(file), Num(64))
  \/ NumLt(BufLen(file),
           NumAdd(Num(64), NumMul(8, NumAdd(HeaderNumImages(file), Num(1)))))

\* C7: both decoders reject such a stream: the read ends in an error and
\* yields no image entry, no frame and no pass verdict.
C7_StructuralRejection ==
  (wr # "none" /\ Malformed(disk)) =>
    /\ pv # NoPreview =>
         (pv.status \in {"bad_magic", "struct_error"} /\ pv.frames = <<>>)
    /\ vd # NoValidate =>
         (vd.status \in {"bad_magic", "error"} /\ ~vd.result /\ vd.log = <<>>)

\* C9: assemble_bif fails only when an offset does not fit in 32 bits; then
\* the destination holds no partial file; in every other case the file
\* written is complete.
C9_OverflowAtomic ==
  Encoded =>
    /\ wr = "raised" <=> ~FitsU32(ExpectedFileLen(images))
    /\ wr = "raised" => disk = NoFile
    /\ wr = "written" =>
         (BufLen(disk) = ExpectedFileLen(images)
            /\ preview_bif(disk).frames = images)

----------------------------------------------------------------------------
(* Properties of the validator *)

Bad(cell) == ~cell.dec \/ ~cell.rd \/ cell.mse >= mse_threshold

Selected(n) ==
  IF validate_all THEN [i \in 1..n |-> i - 1]
  ELSE vd.sample_indices

\* C8: on a valid BIF of N >= 1 entries every selected sample (all N, or
\* min(num_samples, N) distinct indices) is processed, whatever happened to
\* the samples before it; a sample is a mismatch exactly when its JPEG does
\* not decode, its video frame cannot be read or its MSE >= threshold; each
\* adds one to the count; the result is a pass iff the count is zero.
C8_Aggregation ==
  (Encoded /\ wr = "written" /\ vd # NoValidate /\ Len(images) >= 1) =>
    LET n == Len(images)
        sel == vd.sample_indices
        k == IF validate_all THEN n
             ELSE IF num_samples < n THEN num_samples ELSE n
    IN  /\ vd.status = "validated"
        /\ sel = Selected(n)
        /\ Len(sel) = k
        /\ \A i \in 1..k : sel[i] \in 0..(n - 1)
        /\ \A i, j \in 1..k : i # j => sel[i] # sel[j]
        /\ Len(vd.log) = k
        /\ \A i \in 1..k :
             /\ vd.log[i].frame_index = sel[i]
             /\ (vd.log[i].line # "OK") <=> Bad(env[sel[i]])
        /\ vd.mismatches = Cardinality({i \in 1..k : Bad(env[sel[i]])})
        /\ vd.result <=> (vd.mismatches = 0)

\* the first of two samples failed to decode, the second was still compared
C8_Witness ==
  /\ vd.status = "validated"
  /\ Len(vd.log) = 2
  /\ vd.log[1].line = "FAILED decode"
  /\ vd.log[2].line = "MISMATCH"
  /\ vd.mismatches = 2 /\ ~vd.result

----------------------------------------------------------------------------
(* Properties of the extraction pipeline *)

Returned == pc \in {"extracted", "exit1", "done"}

ViaPrimary == Len(hist) >= 2 /\ hist[2] = "PrimarySucceeded"

FallbackEntries == Cardinality({i \in 1..Len(hist) : hist[i] = "FallbackAttempt"})

\* C3: whatever the workers, the chunks and the order of completion, and
\* whichever jobs drop their frame, the buffers extract_images returns from
\* the primary path are in strictly increasing order of their timestamps,
\* one buffer at most per sampled timestamp.
C3_Ordering ==
  (Returned /\ ViaPrimary) =>
    /\ images = ImageData(ts_images)
    /\ \A i, j \in 1..Len(ts_images) :
         i < j => ts_images[i].ts < ts_images[j].ts
    /\ \A i \in 1..Len(ts_images) :
         /\ ts_images[i].ts \in Elems(frame_timestamps) \ unreadable
         /\ ts_images[i].data = PrimaryJpeg(ts_images[i].ts)
    /\ Len(ts_images) = Cardinality(Elems(frame_timestamps) \ unreadable)

\* results arrived out of timestamp order, from chunks of two, one dropped
C3_Witness ==
  /\ Returned /\ ViaPrimary
  /\ jobs = 2 /\ Len(frame_timestamps) = 9
  /\ Len(images) = 8
  /\ \E i, j \in 1..Len(arrival) : i < j /\ arrival[i] > arrival[j]

\* C4 as stated: when the primary decoder cannot open the source, the result
\* is the fallback's alone and is empty only if the tool is missing or wrote
\* no frame: frames it did write are not discarded.
C4_FallbackNeverDiscards ==
  (Returned /\ ~opens) =>
    /\ ts_images = <<>> /\ frame_timestamps = <<>>
    /\ \A i \in 1..Len(images) :
         images[i] = FallbackJpeg(offset + (i - 1) * interval)
    /\ (images = <<>>) => (~ffmpeg \/ ff.emitted = 0)

\* C4, amended: ... the result is the fallback's alone, and it is empty
\* exactly when the tool is missing, FFmpeg exits with a non-zero status
\* (the frames it wrote are then discarded) or it wrote no frame; otherwise
\* it holds every frame FFmpeg wrote.
C4_FallbackActivation ==
  (Returned /\ ~opens) =>
    /\ ts_images = <<>> /\ frame_timestamps = <<>> /\ workers = <<>>
    /\ FallbackEntries = 1
    /\ (images = <<>>) <=> (~ffmpeg \/ ff.ret # 0 \/ ff.emitted = 0)
    /\ images # <<>> =>
         /\ Len(images) = ff.emitted
         /\ \A i \in 1..Len(images) :
              images[i] = FallbackJpeg(offset + (i - 1) * interval)

\* the source did not open and FFmpeg's two frames are the result
C4_Witness ==
  /\ Returned /\ ~opens
  /\ ff.ran /\ ff.ret = 0 /\ ff.emitted = 2
  /\ Len(images) = 2

Ended == pc \in {"exit1", "done", "crashed"}

\* C5: a failed read of one timestamp never fails the run. The run ends in
\* NoFramesExtracted (exit 1, no BIF) exactly when the result is empty after
\* the primary and then the fallback path; otherwise it writes a BIF that
\* holds exactly the extracted frames.
C5_FatalOnlyWhenEmpty ==
  Ended =>
    \/ /\ pc = "exit1"
       /\ images = <<>>
       /\ FallbackEntries = 1
       /\ disk = NoFile
    \/ /\ pc = "done"
       /\ images # <<>>
       /\ wr = "written"
       /\ preview_bif(disk).frames = images

\* the stage sequences of section 4.4
AllowedPaths ==
  {<<"PrimaryAttempt", "PrimarySucceeded", "Done">>}
    \cup {<<"PrimaryAttempt", f, "FallbackAttempt", r, "Done">> :
            f \in {"PrimaryFailedOpen", "PrimaryFailedEmpty"},
            r \in {"FallbackSucceeded", "FallbackFailed"}}

IsPrefix(a, b) == Len(a) <= Len(b) /\ SubSeq(b, 1, Len(a)) = a

ExtractFinished == pc \in {"extracted", "exit1", "done", "crashed"}

\* the primary path ran and collected no image
PrimaryProducedNothing ==
  opens /\ Elems(FrameTimestamps(offset, duration, interval)) \subseteq unreadable

\* C10: every run of extract_images goes PrimaryAttempt -> {PrimarySucceeded |
\* PrimaryFailedOpen | PrimaryFailedEmpty} -> (on failure) FallbackAttempt ->
\* {FallbackSucceeded | FallbackFailed} -> Done; the fallback is entered iff
\* the source did not open or the primary path produced nothing, at most
\* once, and frames of the two paths are never mixed.
C10_ControlFlow ==
  /\ pc # "idle" => \E path \in AllowedPaths : IsPrefix(hist, path)
  /\ FallbackEntries <= 1
  /\ ExtractFinished =>
       /\ hist \in AllowedPaths
       /\ (FallbackEntries = 1) <=> (~opens \/ PrimaryProducedNothing)
       /\ ~PrimaryProducedNothing /\ opens =>
            \A i \in 1..Len(images) :
              \E t \in Elems(frame_timestamps) : images[i] = PrimaryJpeg(t)

----------------------------------------------------------------------------
(* Properties of the sampler *)

\* C6 as stated: Sample(95, 10, 0) is 0, 10, ..., 90 and Sample(5, 10, 0) is
\* empty.
C6_SamplerAsStated ==
  (pc = "sampled" /\ interval = 10 /\ offset = 0) =>
    /\ duration = 95 => frame_timestamps = <<0, 10, 20, 30, 40, 50, 60, 70, 80, 90>>
    /\ duration = 5 => frame_timestamps = <<>>

\* C6, amended: Sample(95, 10, 0) is 0, 10, ..., 90 and Sample(5, 10, 0) is
\* the one timestamp 0.
C6_Sampler ==
  (pc = "sampled" /\ interval = 10 /\ offset = 0) =>
    /\ duration = 95 => frame_timestamps = <<0, 10, 20, 30, 40, 50, 60, 70, 80, 90>>
    /\ duration = 5 => frame_timestamps = <<0>>

\* the sampler ran on a source of 95 seconds
C6_Witness ==
  /\ pc = "sampled" /\ interval = 10 /\ offset = 0 /\ duration = 95
  /\ Len(frame_timestamps) = 10

----------------------------------------------------------------------------
(* Properties of the pool's join and of the produced file *)

PoolRan == opens /\ pc \notin {"precheck", "dispatch", "crashed"}

NoTaskInFlight ==
  /\ taskq = <<>> /\ outq = <<>>
  /\ \A w \in DOMAIN workers :
       workers[w].st = "terminated" /\ workers[w].chunk = <<>>
  /\ received = Len(frame_timestamps)
  /\ Elems(arrival) = Elems(frame_timestamps) \ unreadable

\* C11: the re-sort starts, and a result is returned, only when every
\* dispatched task has completed, and when the pool's result is abandoned
\* for the fallback every pool worker has finished its work and has been
\* terminated before the fallback process starts.
C11_JoinBarrier ==
  /\ (PoolRan /\ pc \in {"joined", "extracted", "exit1", "done"})
       => NoTaskInFlight
  /\ (pc = "fallback" \/ ff.ran) =>
       /\ \A w \in DOMAIN workers : workers[w].st = "terminated"
       /\ opens => NoTaskInFlight

\* nine tasks went through two workers, none gave a frame, and the fallback
\* is about to start
C11_Witness ==
  /\ pc = "fallback" /\ opens
  /\ jobs = 2 /\ received = 9
  /\ \A w \in DOMAIN workers : workers[w].st = "terminated"

\* C12: in every BIF the pipeline produces with offset 0, whichever jobs
\* dropped their frame, the payload at index i is the frame sampled at
\* i * interval seconds, the timestamp (i * interval_ms) validate_bif
\* compares that entry with.
C12_IndexAlignment ==
  (pc = "done" /\ offset = 0) =>
    LET r == preview_bif(disk)
    IN  /\ r.status = "ok"
        /\ r.interval_ms = Num(1000 * interval)
        /\ \A i \in 1..Len(r.frames) :
             r.frames[i] \in {PrimaryJpeg((i - 1) * interval),
                              FallbackJpeg((i - 1) * interval)}

====
